---- MODULE Spec2Model ----
(***************************************************************************)
(* Model of scaffolds/base.py and scaffolds/claudecode.py: the Claude Code *)
(* scaffold renders environment variables, a setup script and a sequence   *)
(* of shell commands as text.                                              *)
(*                                                                         *)
(* A Python str is modelled as a sequence of characters, each character a  *)
(* one-character TLA+ string.  The grave accent cannot be written inside a *)
(* TLA+ string literal, so that one character is the atom BT.              *)
(* Python's None is the value None, distinct from the empty str <<>>.      *)
(***************************************************************************)
EXTENDS Integers, Sequences, FiniteSets, TLC

VARIABLES
    ALLOWED_PERMISSIONS,  \* class attribute ClaudeCodeScaffold.ALLOWED_PERMISSIONS
    DEFAULT_MODEL,        \* module global scaffolds.base.DEFAULT_MODEL
    pc,                   \* "idle" | "ready" (a call is about to run) | "done"
    call,                 \* the invocation: method, receiver and arguments passed
    callerQueries,        \* contents of the caller's queries list object
    ret,                  \* the value the last call returned
    queriesId,            \* identity of the caller's queries list object (0: none)
    retId,                \* identity of the returned dict or list object (0: a str)
    returned,             \* identities of the objects returned by earlier calls
    nextId                \* identity the next allocated object gets

vars == <<ALLOWED_PERMISSIONS, DEFAULT_MODEL, pc, call, callerQueries, queriesId, ret,
          retId, returned, nextId>>

-----------------------------------------------------------------------------
(* Characters and values                                                   *)

BS == "\\"
DQ == "\""
DOLLAR == "$"
BT == "GRAVE"
SQ == "'"
SP == " "

None == <<"None">>

\* Python truthiness of an Optional[str]: None and "" are falsy.
Truthy(x) == x # None /\ x # <<>>

\* base.py: SUPPORTED_MODELS
SUPPORTED_MODELS ==
    << <<"c","l","a","u","d","e","-","s","o","n","n","e","t","-","4","-","5","-","2","0","2","5","0","9","2","9">>,
       <<"c","l","a","u","d","e","-","o","p","u","s","-","4","-","5","-","2","0","2","5","1","1","0","1">>,
       <<"c","l","a","u","d","e","-","h","a","i","k","u","-","4","-","5","-","2","0","2","5","1","0","0","1">>,
       <<"g","e","m","i","n","i","-","3","-","p","r","o">>,
       <<"d","e","e","p","s","e","e","k","-","c","h","a","t">> >>

\* base.py: DEFAULT_MODEL = "claude-sonnet-4-5-20250929"
InitialDefaultModel ==
    <<"c","l","a","u","d","e","-","s","o","n","n","e","t","-","4","-","5","-","2","0","2","5",
      "0","9","2","9">>

\* claudecode.py: ClaudeCodeScaffold.ALLOWED_PERMISSIONS
InitialAllowedPermissions ==
    << <<"B","a","s","h","(","*",")">>,
       <<"W","r","i","t","e","(","*",")">>,
       <<"E","d","i","t","(","*",")">>,
       <<"R","e","a","d","(","*",")">>,
       <<"W","e","b","F","e","t","c","h","(","*",")">>,
       <<"T","o","d","o","R","e","a","d","(","*",")">>,
       <<"T","o","d","o","W","r","i","t","e","(","*",")">>,
       <<"T","a","s","k","(","*",")">>,
       <<"G","l","o","b","(","*",")">>,
       <<"G","r","e","p","(","*",")">>,
       <<"L","S","(","*",")">> >>

-----------------------------------------------------------------------------
(* String helpers                                                          *)

\* str.replace(old, new) for a one-character old: every occurrence, left to right
RECURSIVE replace(_, _, _)
replace(text, old, new) ==
    IF text = <<>> THEN <<>>
    ELSE (IF Head(text) = old THEN new ELSE <<Head(text)>>)
         \o replace(Tail(text), old, new)

-----------------------------------------------------------------------------
(* ClaudeCodeScaffold._escape_for_shell                                    *)

\* variant: the replacement of the grave accent is missing
_escape_for_shell_no_grave(text) ==
    LET t1 == replace(text, BS, <<BS, BS>>)
        t2 == replace(t1, DQ, <<BS, DQ>>)
        t3 == replace(t2, DOLLAR, <<BS, DOLLAR>>)
    IN  t3

\* variant: the backslash is replaced last instead of first
_escape_for_shell_backslash_last(text) ==
    LET t1 == replace(text, DQ, <<BS, DQ>>)
        t2 == replace(t1, DOLLAR, <<BS, DOLLAR>>)
        t3 == replace(t2, BT, <<BS, BT>>)
        t4 == replace(t3, BS, <<BS, BS>>)
    IN  t4

_escape_for_shell(text) ==
    LET t1 == replace(text, BS, <<BS, BS>>)
        t2 == replace(t1, DQ, <<BS, DQ>>)
        t3 == replace(t2, DOLLAR, <<BS, DOLLAR>>)
        t4 == replace(t3, BT, <<BS, BT>>)
    IN  t4

-----------------------------------------------------------------------------
(* ClaudeCodeScaffold.get_docker_env                                       *)

FAKE_KEY ==
    <<"f","a","k","e","-","k","e","y">>

\* variant: a model that is passed is used as the API key
get_docker_env_model_key(proxy_url, model) ==
    [k \in {"ANTHROPIC_BASE_URL", "ANTHROPIC_API_KEY"} |->
        IF k = "ANTHROPIC_BASE_URL" THEN proxy_url
        ELSE IF Truthy(model) THEN model ELSE FAKE_KEY]

get_docker_env(proxy_url, model) ==
    [k \in {"ANTHROPIC_BASE_URL", "ANTHROPIC_API_KEY"} |->
        IF k = "ANTHROPIC_BASE_URL" THEN proxy_url ELSE FAKE_KEY]

-----------------------------------------------------------------------------
(* ClaudeCodeScaffold.build_commands                                       *)

\* f'claude --model {model_name} --dangerously-skip-permissions'
base_cmd(model_name) ==
    <<"c","l","a","u","d","e"," ","-","-","m","o","d","e","l"," ">>
    \o model_name
    \o <<" ","-","-","d","a","n","g","e","r","o","u","s","l","y","-","s","k","i","p","-","p","e","r","m","i","s","s","i","o","n","s">>

\* variant: the system prompt is appended to the continuation commands too
cmd_prompt_everywhere(i, query, system_prompt, model_name) ==
    LET escaped_query == _escape_for_shell(query)
        first == base_cmd(model_name)
                 \o <<" ","-","p"," ","\"">> \o escaped_query
        later == <<"c","l","a","u","d","e"," ","-","-","d","a","n","g","e","r","o","u","s","l","y","-","s","k","i","p","-","p","e","r","m","i","s","s","i","o","n","s"," ","-","c"," ","-","p"," ","\"">>
                 \o escaped_query
        head == IF i = 0 THEN first ELSE later
    IN  IF Truthy(system_prompt)
        THEN head \o <<"\""," ","-","-","s","y","s","t","e","m","-","p","r","o","m","p","t"," ","\"">>
             \o _escape_for_shell(system_prompt) \o <<DQ>>
        ELSE head \o <<DQ>>

\* variant: the continuation commands are built on base_cmd and name the model
cmd_model_everywhere(i, query, system_prompt, model_name) ==
    LET escaped_query == _escape_for_shell(query)
    IN  IF i = 0
        THEN IF Truthy(system_prompt)
             THEN base_cmd(model_name)
                  \o <<" ","-","p"," ","\"">> \o escaped_query
                  \o <<"\""," ","-","-","s","y","s","t","e","m","-","p","r","o","m","p","t"," ","\"">>
                  \o _escape_for_shell(system_prompt) \o <<DQ>>
             ELSE base_cmd(model_name)
                  \o <<" ","-","p"," ","\"">> \o escaped_query \o <<DQ>>
        ELSE base_cmd(model_name)
             \o <<" ","-","c"," ","-","p"," ","\"">> \o escaped_query \o <<DQ>>

\* variant: the command at index 0 carries -c as well
cmd_continue_everywhere(i, query, system_prompt, model_name) ==
    LET escaped_query == _escape_for_shell(query)
    IN  IF i = 0
        THEN IF Truthy(system_prompt)
             THEN base_cmd(model_name)
                  \o <<" ","-","c"," ","-","p"," ","\"">> \o escaped_query
                  \o <<"\""," ","-","-","s","y","s","t","e","m","-","p","r","o","m","p","t"," ","\"">>
                  \o _escape_for_shell(system_prompt) \o <<DQ>>
             ELSE base_cmd(model_name)
                  \o <<" ","-","c"," ","-","p"," ","\"">> \o escaped_query \o <<DQ>>
        ELSE <<"c","l","a","u","d","e"," ","-","-","d","a","n","g","e","r","o","u","s","l","y","-","s","k","i","p","-","p","e","r","m","i","s","s","i","o","n","s"," ","-","c"," ","-","p"," ","\"">>
             \o escaped_query \o <<DQ>>

\* the command for the query at 0-based index i
cmd(i, query, system_prompt, model_name) ==
    LET escaped_query == _escape_for_shell(query)
    IN  IF i = 0
        THEN IF Truthy(system_prompt)
             THEN base_cmd(model_name)
                  \o <<" ","-","p"," ","\"">> \o escaped_query
                  \o <<"\""," ","-","-","s","y","s","t","e","m","-","p","r","o","m","p","t"," ","\"">>
                  \o _escape_for_shell(system_prompt) \o <<DQ>>
             ELSE base_cmd(model_name)
                  \o <<" ","-","p"," ","\"">> \o escaped_query \o <<DQ>>
        ELSE <<"c","l","a","u","d","e"," ","-","-","d","a","n","g","e","r","o","u","s","l","y","-","s","k","i","p","-","p","e","r","m","i","s","s","i","o","n","s"," ","-","c"," ","-","p"," ","\"">>
             \o escaped_query \o <<DQ>>

\* variant: empty queries are skipped
build_commands_skip_empty(queries, system_prompt, model, default_model) ==
    LET model_name == IF Truthy(model) THEN model ELSE default_model
        kept == SelectSeq(queries, LAMBDA q : q # <<>>)
    IN  [k \in 1..Len(kept) |-> cmd(k - 1, kept[k], system_prompt, model_name)]

\* variant: a model outside SUPPORTED_MODELS is replaced by the default
build_commands_validating(queries, system_prompt, model, default_model) ==
    LET supported == {SUPPORTED_MODELS[n] : n \in 1..Len(SUPPORTED_MODELS)}
        model_name == IF model \in supported THEN model ELSE default_model
    IN  [k \in 1..Len(queries) |-> cmd(k - 1, queries[k], system_prompt, model_name)]

\* default_model is the value of the global DEFAULT_MODEL when the call runs.
\* The loop appends one command per query, in order; position k of the result
\* (1-based) is the command for the 0-based index k - 1.
build_commands(queries, system_prompt, model, default_model) ==
    LET model_name == IF Truthy(model) THEN model ELSE default_model
    IN  [k \in 1..Len(queries) |-> cmd(k - 1, queries[k], system_prompt, model_name)]

-----------------------------------------------------------------------------
(* ClaudeCodeScaffold.get_setup_script                                     *)

\* Python values handed to json.dumps: str, list and dict (insertion-ordered,
\* items as <<key, value>> pairs), tagged by t.
JStr(s) == [t |-> "str", s |-> s, items |-> <<>>]
JArr(elems) == [t |-> "arr", s |-> <<>>, items |-> elems]
JObj(members) == [t |-> "obj", s |-> <<>>, items |-> members]

\* json.encoder.py_encode_basestring (ensure_ascii=False): one pass over the
\* characters; backslash and double quote get a backslash in front.  Control
\* characters, which it also escapes, are outside the alphabets used here.
RECURSIVE encode_basestring(_)
encode_basestring(s) ==
    IF s = <<>> THEN <<>>
    ELSE (IF Head(s) \in {BS, DQ} THEN <<BS, Head(s)>> ELSE <<Head(s)>>)
         \o encode_basestring(Tail(s))

\* separator.join(parts)
RECURSIVE Join(_, _)
Join(parts, separator) ==
    IF parts = <<>> THEN <<>>
    ELSE IF Len(parts) = 1 THEN parts[1]
    ELSE parts[1] \o separator \o Join(Tail(parts), separator)

\* json.dumps(value, ensure_ascii=False) with the default separators ', ' and ': '
RECURSIVE json_dumps(_)
json_dumps(v) ==
    CASE v.t = "str" -> <<DQ>> \o encode_basestring(v.s) \o <<DQ>>
      [] v.t = "arr" ->
            <<"[">>
            \o Join([i \in 1..Len(v.items) |-> json_dumps(v.items[i])], <<",", SP>>)
            \o <<"]">>
      [] v.t = "obj" ->
            <<"{">>
            \o Join([i \in 1..Len(v.items) |->
                        <<DQ>> \o encode_basestring(v.items[i][1]) \o <<DQ, ":", SP>>
                        \o json_dumps(v.items[i][2])],
                    <<",", SP>>)
            \o <<"}">>

KEY_env == <<"e","n","v">>
KEY_ANTHROPIC_BASE_URL ==
    <<"A","N","T","H","R","O","P","I","C","_","B","A","S","E","_","U","R","L">>
KEY_permissions == <<"p","e","r","m","i","s","s","i","o","n","s">>
KEY_allow == <<"a","l","l","o","w">>

\* the settings dict; permissions is the list self.ALLOWED_PERMISSIONS refers to
settings(proxy_url, permissions) ==
    JObj(<< <<KEY_env, JObj(<< <<KEY_ANTHROPIC_BASE_URL, JStr(proxy_url)>> >>)>>,
            <<KEY_permissions,
              JObj(<< <<KEY_allow,
                        JArr([i \in 1..Len(permissions) |-> JStr(permissions[i])])>> >>)>> >>)

SCRIPT_HEAD ==
    <<"m","k","d","i","r"," ","-","p"," ","~","/",".","c","l","a","u","d","e"," ","&","&"," ","e","c","h","o"," ","'">>
SCRIPT_TAIL ==
    <<"'"," ",">"," ","~","/",".","c","l","a","u","d","e","/","s","e","t","t","i","n","g","s",".","j","s","o","n">>

\* f"mkdir -p ~/.claude && echo '{settings_json}' > ~/.claude/settings.json"
get_setup_script(proxy_url, model, permissions) ==
    LET settings_json == json_dumps(settings(proxy_url, permissions))
    IN  SCRIPT_HEAD \o settings_json \o SCRIPT_TAIL

-----------------------------------------------------------------------------
(* How the consumers read the rendered text.  These definitions are not    *)
(* code of the scaffold: they are the shell's quoting rules, the JSON      *)
(* grammar and the flag syntax of the claude command, against which the    *)
(* rendered text is judged.                                                *)

EOF == "EOF"
At(s, i) == IF 1 <= i /\ i <= Len(s) THEN s[i] ELSE EOF

\* least position j >= i with s[j] in stops, Len(s) + 1 when there is none
RunEnd(s, i, stops) ==
    LET hits == {j \in i..Len(s) : s[j] \in stops}
    IN  IF hits = {} THEN Len(s) + 1
        ELSE CHOOSE j \in hits : \A k \in hits : j <= k

\* position of the first single quote at or after i, 0 when there is none
NextSq(s, i) ==
    LET j == RunEnd(s, i, {SQ})
    IN  IF j > Len(s) THEN 0 ELSE j

\* Inside double quotes: backslash before one of \ " $ and the grave accent
\* yields that character, any other backslash stays; an unescaped " ends the
\* string; an unescaped $ or grave accent starts a substitution (not ok).
\* i is the position after the opening quote; next is the position after the
\* closing one.
RECURSIVE DqRead(_, _, _)
DqRead(s, i, acc) ==
    LET c == At(s, i)
        d == At(s, i + 1)
    IN  CASE c = EOF -> [ok |-> FALSE, text |-> acc, next |-> i]
          [] c = DQ -> [ok |-> TRUE, text |-> acc, next |-> i + 1]
          [] c = BS /\ d \in {BS, DQ, DOLLAR, BT} -> DqRead(s, i + 2, Append(acc, d))
          [] c \in {DOLLAR, BT} -> [ok |-> FALSE, text |-> acc, next |-> i]
          [] c = BS -> DqRead(s, i + 1, Append(acc, c))
          [] OTHER ->
                LET e == RunEnd(s, i, {DQ, BS, DOLLAR, BT})
                IN  DqRead(s, e, acc \o SubSeq(s, i, e - 1))

OpChars == {"&", ">", "<", "|", ";", "(", ")"}

LexStops == {SP, SQ, DQ, BS, DOLLAR, BT} \cup OpChars

Word(text) == [kind |-> "word", text |-> text]
Op(c) == [kind |-> "op", text |-> <<c>>]

\* The shell's split of a command line into tokens: blanks separate words,
\* single quotes keep everything up to the next single quote, double quotes
\* are read by DqRead, an unquoted backslash keeps the next character, an
\* unquoted operator character is a token of its own.  Not ok: an unterminated
\* quote, a trailing backslash, an unquoted substitution.
RECURSIVE Lex(_, _, _, _, _)
Lex(s, i, cur, inword, toks) ==
    LET c == At(s, i)
        flushed == IF inword THEN Append(toks, Word(cur)) ELSE toks
    IN  CASE c = EOF -> [ok |-> TRUE, toks |-> flushed]
          [] c = SP -> Lex(s, i + 1, <<>>, FALSE, flushed)
          [] c = SQ ->
                LET j == NextSq(s, i + 1)
                IN  IF j = 0 THEN [ok |-> FALSE, toks |-> flushed]
                    ELSE Lex(s, j + 1, cur \o SubSeq(s, i + 1, j - 1), TRUE, toks)
          [] c = DQ ->
                LET r == DqRead(s, i + 1, <<>>)
                IN  IF ~r.ok THEN [ok |-> FALSE, toks |-> flushed]
                    ELSE Lex(s, r.next, cur \o r.text, TRUE, toks)
          [] c = BS ->
                IF At(s, i + 1) = EOF THEN [ok |-> FALSE, toks |-> flushed]
                ELSE Lex(s, i + 2, Append(cur, s[i + 1]), TRUE, toks)
          [] c \in {DOLLAR, BT} -> [ok |-> FALSE, toks |-> flushed]
          [] c \in OpChars -> Lex(s, i + 1, <<>>, FALSE, Append(flushed, Op(c)))
          [] OTHER ->
                LET e == RunEnd(s, i, LexStops)
                IN  Lex(s, e, cur \o SubSeq(s, i, e - 1), TRUE, toks)

ShellLex(s) == Lex(s, 1, <<>>, FALSE, <<>>)

\* the argument vector of a simple command: ok only when the line lexes and
\* holds words alone
Argv(command) ==
    LET lx == ShellLex(command)
    IN  IF lx.ok /\ \A k \in 1..Len(lx.toks) : lx.toks[k].kind = "word"
        THEN [ok |-> TRUE, words |-> [k \in 1..Len(lx.toks) |-> lx.toks[k].text]]
        ELSE [ok |-> FALSE, words |-> <<>>]

W_claude == <<"c","l","a","u","d","e">>
W_model == <<"-","-","m","o","d","e","l">>
W_skip ==
    <<"-","-","d","a","n","g","e","r","o","u","s","l","y","-","s","k","i","p","-","p","e","r","m","i","s","s","i","o","n","s">>
W_p == <<"-","p">>
W_c == <<"-","c">>
W_system_prompt ==
    <<"-","-","s","y","s","t","e","m","-","p","r","o","m","p","t">>

NoArgs ==
    [ok |-> TRUE, model |-> None, p |-> None, system_prompt |-> None,
     c |-> FALSE, skip |-> FALSE]

\* The options of a claude command line: --model, -p and --system-prompt take
\* the next word as their argument, -c and --dangerously-skip-permissions are
\* switches.  Not ok: an option without its argument, an option given twice,
\* any other word.
RECURSIVE ParseArgs(_, _, _)
ParseArgs(words, k, acc) ==
    LET w == words[k]
        has == k + 1 <= Len(words)
    IN  IF k > Len(words) THEN acc
        ELSE CASE w = W_model /\ has /\ acc.model = None ->
                    ParseArgs(words, k + 2, [acc EXCEPT !.model = words[k + 1]])
               [] w = W_p /\ has /\ acc.p = None ->
                    ParseArgs(words, k + 2, [acc EXCEPT !.p = words[k + 1]])
               [] w = W_system_prompt /\ has /\ acc.system_prompt = None ->
                    ParseArgs(words, k + 2, [acc EXCEPT !.system_prompt = words[k + 1]])
               [] w = W_c /\ ~acc.c -> ParseArgs(words, k + 1, [acc EXCEPT !.c = TRUE])
               [] w = W_skip /\ ~acc.skip ->
                    ParseArgs(words, k + 1, [acc EXCEPT !.skip = TRUE])
               [] OTHER -> [acc EXCEPT !.ok = FALSE]

\* what the shell hands to claude for one rendered command
ClaudeArgs(command) ==
    LET av == Argv(command)
    IN  IF av.ok /\ Len(av.words) >= 1 /\ av.words[1] = W_claude
        THEN ParseArgs(av.words, 2, NoArgs)
        ELSE [NoArgs EXCEPT !.ok = FALSE]

\* ---- JSON text to value (objects, arrays and strings; blanks between tokens)

NoJson == [ok |-> FALSE, val |-> JStr(<<>>), next |-> 0]

RECURSIVE SkipWs(_, _)
SkipWs(s, i) == IF At(s, i) = SP THEN SkipWs(s, i + 1) ELSE i

\* i is the position after the opening quote
RECURSIVE JsonString(_, _, _)
JsonString(s, i, acc) ==
    LET c == At(s, i)
        d == At(s, i + 1)
    IN  CASE c = EOF -> NoJson
          [] c = DQ -> [ok |-> TRUE, val |-> JStr(acc), next |-> i + 1]
          [] c = BS -> IF d \in {BS, DQ, "/"} THEN JsonString(s, i + 2, Append(acc, d))
                       ELSE NoJson
          [] OTHER ->
                LET e == RunEnd(s, i, {DQ, BS})
                IN  JsonString(s, e, acc \o SubSeq(s, i, e - 1))

RECURSIVE JsonValue(_, _)
RECURSIVE JsonElements(_, _, _)
RECURSIVE JsonMembers(_, _, _)

JsonValue(s, i0) ==
    LET i == SkipWs(s, i0)
        c == At(s, i)
        j == SkipWs(s, i + 1)
    IN  CASE c = DQ -> JsonString(s, i + 1, <<>>)
          [] c = "[" -> IF At(s, j) = "]"
                        THEN [ok |-> TRUE, val |-> JArr(<<>>), next |-> j + 1]
                        ELSE JsonElements(s, j, <<>>)
          [] c = "{" -> IF At(s, j) = "}"
                        THEN [ok |-> TRUE, val |-> JObj(<<>>), next |-> j + 1]
                        ELSE JsonMembers(s, j, <<>>)
          [] OTHER -> NoJson

\* the elements of an array from position i, after "[" or ","
JsonElements(s, i, acc) ==
    LET v == JsonValue(s, i)
        j == SkipWs(s, v.next)
        c == At(s, j)
    IN  IF ~v.ok THEN NoJson
        ELSE CASE c = "," -> JsonElements(s, j + 1, Append(acc, v.val))
               [] c = "]" ->
                    [ok |-> TRUE, val |-> JArr(Append(acc, v.val)), next |-> j + 1]
               [] OTHER -> NoJson

\* the members of an object from position i, after "{" or ","
JsonMembers(s, i0, acc) ==
    LET i == SkipWs(s, i0)
        key == IF At(s, i) = DQ THEN JsonString(s, i + 1, <<>>) ELSE NoJson
        colon == SkipWs(s, key.next)
        v == IF key.ok /\ At(s, colon) = ":" THEN JsonValue(s, colon + 1) ELSE NoJson
        j == SkipWs(s, v.next)
        c == At(s, j)
        member == <<key.val.s, v.val>>
    IN  IF ~v.ok THEN NoJson
        ELSE CASE c = "," -> JsonMembers(s, j + 1, Append(acc, member))
               [] c = "}" ->
                    [ok |-> TRUE, val |-> JObj(Append(acc, member)), next |-> j + 1]
               [] OTHER -> NoJson

\* json.loads: one value and nothing after it
JsonLoads(s) ==
    LET v == JsonValue(s, 1)
    IN  IF v.ok /\ SkipWs(s, v.next) = Len(s) + 1 THEN v ELSE NoJson

\* ---- what running the setup script writes to ~/.claude/settings.json

W_mkdir == <<"m","k","d","i","r">>
W_dir == <<"~","/",".","c","l","a","u","d","e">>
W_echo == <<"e","c","h","o">>
W_file ==
    <<"~","/",".","c","l","a","u","d","e","/","s","e","t","t","i","n","g","s",".","j","s","o","n">>

\* The script is  mkdir -p DIR && echo WORD > FILE ; echo writes its one
\* argument as it is (bash's builtin echo leaves backslashes alone).
SetupWrites(script) ==
    LET lx == ShellLex(script)
        toks == lx.toks
    IN  IF /\ lx.ok
           /\ Len(toks) = 9
           /\ SubSeq(toks, 1, 6) = <<Word(W_mkdir), Word(W_p), Word(W_dir),
                                     Op("&"), Op("&"), Word(W_echo)>>
           /\ toks[7].kind = "word"
           /\ SubSeq(toks, 8, 9) = <<Op(">"), Word(W_file)>>
        THEN [ok |-> TRUE, payload |-> toks[7].text]
        ELSE [ok |-> FALSE, payload |-> <<>>]

\* the script holds exactly one single-quoted string: an opening quote, a
\* closing quote and no other single quote
OneSingleQuotedString(script) ==
    LET open == NextSq(script, 1)
        close == IF open = 0 THEN 0 ELSE NextSq(script, open + 1)
    IN  open # 0 /\ close # 0 /\ NextSq(script, close + 1) = 0

-----------------------------------------------------------------------------
(* Bounds and input domains                                                *)

MaxTextLen == 4      \* longest text handed to _escape_for_shell
MaxQueries == 2      \* longest queries list
MaxQueryLen == 1     \* longest query
MaxPromptLen == 2    \* longest system prompt
MaxUrlLen == 2       \* longest proxy_url
MaxObjects == 5      \* identities available to allocated objects

Strings(chars, n) == UNION {[1..k -> chars] : k \in 0..n}
Lists(elems, n) == UNION {[1..k -> elems] : k \in 0..n}

TextChars == {BS, DQ, DOLLAR, BT, SP, "a"}
QueryChars == {DQ, SP}
PromptChars == {DQ, "a"}
UrlChars == {SQ, DQ, BS, "h"}

UNSUPPORTED_NAME == <<"g","p","t","-","x">>

\* model arguments: not passed, empty, a supported name, an unsupported name.
\* A model is a name (base.py lists them): build_commands writes it into the
\* command unquoted, so the names are without blanks and shell metacharacters.
ModelArgs == {None, <<>>, SUPPORTED_MODELS[5], UNSUPPORTED_NAME}

\* An invocation: the method, the receiver and the arguments; an argument the
\* method does not take is None.  Instances have no attributes of their own
\* (the class defines no __init__), so the receiver is only a name.
Invocation(op, self, proxy_url, queries, system_prompt, model, text) ==
    [op |-> op, self |-> self, proxy_url |-> proxy_url, queries |-> queries,
     system_prompt |-> system_prompt, model |-> model, text |-> text]

EscapeCalls(selves, texts) ==
    {Invocation("_escape_for_shell", self, None, None, None, None, text) :
        self \in selves, text \in texts}
EnvCalls(selves, urls, models) ==
    {Invocation("get_docker_env", self, url, None, None, model, None) :
        self \in selves, url \in urls, model \in models}
SetupCalls(selves, urls, models) ==
    {Invocation("get_setup_script", self, url, None, None, model, None) :
        self \in selves, url \in urls, model \in models}
BuildCalls(selves, lists, prompts, models) ==
    {Invocation("build_commands", self, None, queries, system_prompt, model, None) :
        self \in selves, queries \in lists, system_prompt \in prompts,
        model \in models}

-----------------------------------------------------------------------------
(* The calls.  Object identities are naturals in allocation order: the     *)
(* class body allocated the ALLOWED_PERMISSIONS list first; a caller's     *)
(* queries list and every dict or list a method builds get the next free   *)
(* identity.  A str result has no identity of interest (retId = 0).        *)

PermissionsId == 1

Allocated == returned \cup (IF retId = 0 THEN {} ELSE {retId})

\* @staticmethod _escape_for_shell(text) -> str
EscapeForShell(inv) ==
    /\ inv.op = "_escape_for_shell"
    /\ ret' = _escape_for_shell(inv.text)
    /\ retId' = 0
    /\ returned' = Allocated
    /\ call' = inv
    /\ pc' = "done"
    /\ callerQueries' = None
    /\ UNCHANGED <<ALLOWED_PERMISSIONS, DEFAULT_MODEL, queriesId, nextId>>

\* get_docker_env(self, proxy_url, model) -> a new dict
GetDockerEnv(inv) ==
    /\ inv.op = "get_docker_env"
    /\ nextId <= MaxObjects
    /\ ret' = get_docker_env(inv.proxy_url, inv.model)
    /\ retId' = nextId
    /\ nextId' = nextId + 1
    /\ returned' = Allocated
    /\ call' = inv
    /\ pc' = "done"
    /\ callerQueries' = None
    /\ UNCHANGED <<ALLOWED_PERMISSIONS, DEFAULT_MODEL, queriesId>>

\* get_setup_script(self, proxy_url, model) -> str; reads self.ALLOWED_PERMISSIONS
GetSetupScript(inv) ==
    /\ inv.op = "get_setup_script"
    /\ ret' = get_setup_script(inv.proxy_url, inv.model, ALLOWED_PERMISSIONS)
    /\ retId' = 0
    /\ returned' = Allocated
    /\ call' = inv
    /\ pc' = "done"
    /\ callerQueries' = None
    /\ UNCHANGED <<ALLOWED_PERMISSIONS, DEFAULT_MODEL, queriesId, nextId>>

\* variant: the model used becomes the default of later calls
BuildCommandsCaching(inv) ==
    /\ inv.op = "build_commands"
    /\ nextId + 1 <= MaxObjects
    /\ queriesId' = nextId
    /\ ret' = build_commands(inv.queries, inv.system_prompt, inv.model, DEFAULT_MODEL)
    /\ retId' = nextId + 1
    /\ nextId' = nextId + 2
    /\ returned' = Allocated
    /\ call' = inv
    /\ pc' = "done"
    /\ callerQueries' = inv.queries
    /\ DEFAULT_MODEL' = IF Truthy(inv.model) THEN inv.model ELSE DEFAULT_MODEL
    /\ UNCHANGED ALLOWED_PERMISSIONS

\* build_commands(self, queries, system_prompt, model) -> a new list; reads the
\* global DEFAULT_MODEL and iterates over the caller's list without changing it
BuildCommands(inv) ==
    /\ inv.op = "build_commands"
    /\ nextId + 1 <= MaxObjects
    /\ queriesId' = nextId
    /\ ret' = build_commands(inv.queries, inv.system_prompt, inv.model, DEFAULT_MODEL)
    /\ retId' = nextId + 1
    /\ nextId' = nextId + 2
    /\ returned' = Allocated
    /\ call' = inv
    /\ pc' = "done"
    /\ callerQueries' = inv.queries
    /\ UNCHANGED <<ALLOWED_PERMISSIONS, DEFAULT_MODEL>>

-----------------------------------------------------------------------------
(* Spec: one call on arguments drawn from the bounded domains              *)

Calls ==
    EscapeCalls({"scaffold"}, Strings(TextChars, MaxTextLen))
    \cup EnvCalls({"scaffold"}, Strings(UrlChars, MaxUrlLen), ModelArgs)
    \cup SetupCalls({"scaffold"}, Strings(UrlChars, MaxUrlLen), ModelArgs)
    \cup BuildCalls({"scaffold"},
                    Lists(Strings(QueryChars, MaxQueryLen), MaxQueries),
                    {None} \cup Strings(PromptChars, MaxPromptLen),
                    ModelArgs)

Globals ==
    /\ ALLOWED_PERMISSIONS = InitialAllowedPermissions
    /\ DEFAULT_MODEL = InitialDefaultModel
    /\ callerQueries = None
    /\ queriesId = 0
    /\ ret = None
    /\ retId = 0
    /\ returned = {}
    /\ nextId = PermissionsId + 1

Init ==
    /\ Globals
    /\ pc = "ready"
    /\ call \in Calls

RunEscapeForShell == pc = "ready" /\ EscapeForShell(call)
RunGetDockerEnv == pc = "ready" /\ GetDockerEnv(call)
RunGetSetupScript == pc = "ready" /\ GetSetupScript(call)
RunBuildCommands == pc = "ready" /\ BuildCommands(call)

Next ==
    \/ RunEscapeForShell
    \/ RunGetDockerEnv
    \/ RunGetSetupScript
    \/ RunBuildCommands

Spec == Init /\ [][Next]_vars

-----------------------------------------------------------------------------
(* SpecCalls: any sequence of calls, on either of two instances            *)

Instances == {"scaffold_a", "scaffold_b"}
SomeTexts == {<<"a">>, <<DQ, BS>>}
SomeUrls == {<<"h">>, <<"h", DQ>>}
SomeModels == {None, UNSUPPORTED_NAME}

InitCalls ==
    /\ Globals
    /\ pc = "idle"
    /\ call = Invocation("none", "none", None, None, None, None, None)

AnyEscapeForShell ==
    \E inv \in EscapeCalls(Instances, SomeTexts) : EscapeForShell(inv)
AnyGetDockerEnv ==
    \E inv \in EnvCalls(Instances, SomeUrls, SomeModels) : GetDockerEnv(inv)
AnyGetSetupScript ==
    \E inv \in SetupCalls(Instances, SomeUrls, SomeModels) : GetSetupScript(inv)
AnyBuildCommands ==
    \E inv \in BuildCalls(Instances, Lists(SomeTexts, 2), {None, <<"a">>}, SomeModels) :
        BuildCommands(inv)

NextCalls ==
    \/ AnyEscapeForShell
    \/ AnyGetDockerEnv
    \/ AnyGetSetupScript
    \/ AnyBuildCommands

SpecCalls == InitCalls /\ [][NextCalls]_vars

-----------------------------------------------------------------------------
(* Properties                                                              *)

Done(op) == pc = "done" /\ call.op = op

Special == {BS, DQ, DOLLAR, BT}

\* the single-pass per-character map: a backslash in front of each special
\* character of the raw text, every other character copied
RECURSIVE PerCharEscape(_)
PerCharEscape(text) ==
    IF text = <<>> THEN <<>>
    ELSE (IF Head(text) \in Special THEN <<BS, Head(text)>> ELSE <<Head(text)>>)
         \o PerCharEscape(Tail(text))

CountSpecial(text) == Cardinality({i \in 1..Len(text) : text[i] \in Special})

\* x occurs in s as a contiguous run of characters
IsInfix(x, s) ==
    \E j \in 0..(Len(s) - Len(x)) : SubSeq(s, j + 1, j + Len(x)) = x

P_OPEN == <<" ","-","p"," ","\"">>

\* C1: build_commands returns exactly one command per query, in order (none
\* for an empty list); the command at each index holds -p "<escaped query>"
\* for the query at that index, and the shell hands that query to -p.
C1_OneCommandPerQuery ==
    Done("build_commands") =>
        /\ Len(ret) = Len(call.queries)
        /\ \A k \in 1..Len(call.queries) :
              /\ IsInfix(P_OPEN \o PerCharEscape(call.queries[k]) \o <<DQ>>, ret[k])
              /\ ClaudeArgs(ret[k]).ok
              /\ ClaudeArgs(ret[k]).p = call.queries[k]

C1_Witness ==
    /\ Done("build_commands")
    /\ Len(call.queries) = 2
    /\ call.queries[1] = <<DQ>>
    /\ call.queries[2] = <<SP>>
    /\ Len(ret) = 2

\* C2: the escaped text, wrapped in double quotes and read by the shell's
\* double-quote rules, is exactly the original text: the reading succeeds (no
\* substitution), ends at the closing quote that was added (no premature end),
\* and the whole is one word.
C2_EscapeRoundTrip ==
    Done("_escape_for_shell") =>
        LET quoted == <<DQ>> \o ret \o <<DQ>>
            r == DqRead(quoted, 2, <<>>)
        IN  /\ r.ok
            /\ r.text = call.text
            /\ r.next = Len(quoted) + 1
            /\ ShellLex(quoted) = [ok |-> TRUE, toks |-> <<Word(call.text)>>]

C2_Witness ==
    /\ Done("_escape_for_shell")
    /\ call.text = <<DOLLAR, BT, DQ, BS>>
    /\ ret = <<BS, DOLLAR, BS, BT, BS, DQ, BS, BS>>

\* C3 as stated: the command at index 0 carries --system-prompt, with the
\* caller's text, exactly when the caller passed a system prompt; no later
\* command carries one.
C3_Original ==
    Done("build_commands") =>
        /\ Len(ret) >= 1 =>
              /\ (ClaudeArgs(ret[1]).system_prompt # None) <=> (call.system_prompt # None)
              /\ call.system_prompt # None =>
                    ClaudeArgs(ret[1]).system_prompt = call.system_prompt
        /\ \A k \in 2..Len(ret) : ClaudeArgs(ret[k]).system_prompt = None

\* C3 amended: the command at index 0 carries --system-prompt, with the
\* caller's text, exactly when the caller passed a non-empty system prompt
\* (an empty one is dropped like an absent one); no later command carries one.
C3_SystemPromptOnlyFirst ==
    Done("build_commands") =>
        /\ Len(ret) >= 1 =>
              /\ ClaudeArgs(ret[1]).ok
              /\ (ClaudeArgs(ret[1]).system_prompt # None) <=> Truthy(call.system_prompt)
              /\ Truthy(call.system_prompt) =>
                    ClaudeArgs(ret[1]).system_prompt = call.system_prompt
        /\ \A k \in 2..Len(ret) :
              ClaudeArgs(ret[k]).ok /\ ClaudeArgs(ret[k]).system_prompt = None

C3_Witness ==
    /\ Done("build_commands")
    /\ Len(ret) = 2
    /\ call.system_prompt = <<DQ>>
    /\ ClaudeArgs(ret[1]).system_prompt = <<DQ>>

\* C4: on a non-empty list the command at index 0 names a model with --model
\* and no later command does; when no model was passed the name is
\* claude-sonnet-4-5-20250929.
C4_ModelOnlyFirst ==
    Done("build_commands") /\ Len(call.queries) >= 1 =>
        /\ ClaudeArgs(ret[1]).ok
        /\ ClaudeArgs(ret[1]).model # None
        /\ \A k \in 2..Len(ret) :
              ClaudeArgs(ret[k]).ok /\ ClaudeArgs(ret[k]).model = None
        /\ call.model = None =>
              ClaudeArgs(ret[1]).model =
                  <<"c","l","a","u","d","e","-","s","o","n","n","e","t","-","4","-","5","-","2","0","2","5","0","9","2","9">>

C4_Witness ==
    /\ Done("build_commands")
    /\ Len(ret) = 2
    /\ call.model = None
    /\ ClaudeArgs(ret[1]).model = SUPPORTED_MODELS[1]

\* C5 as stated: every model value the caller passes, the empty string
\* included, is the name after --model in the command at index 0.
C5_Original ==
    Done("build_commands") /\ Len(call.queries) >= 1 /\ call.model # None =>
        ClaudeArgs(ret[1]).model = call.model

\* C5 amended: every non-empty model value the caller passes, supported or
\* not, stands as it is after --model in the command at index 0 and is the
\* model the shell hands over; an empty one is replaced by the default like
\* an absent one.
C5_SuppliedModelKept ==
    Done("build_commands") /\ Len(call.queries) >= 1 =>
        LET used == IF Truthy(call.model)
                    THEN call.model
                    ELSE <<"c","l","a","u","d","e","-","s","o","n","n","e","t","-","4","-","5","-","2","0","2","5","0","9","2","9">>
            start == <<"c","l","a","u","d","e"," ","-","-","m","o","d","e","l"," ">>
                     \o used
                     \o <<" ","-","-","d","a","n","g","e","r","o","u","s","l","y","-","s","k","i","p","-","p","e","r","m","i","s","s","i","o","n","s"," ">>
        IN  /\ SubSeq(ret[1], 1, Len(start)) = start
            /\ ClaudeArgs(ret[1]).model = used

C5_Witness ==
    /\ Done("build_commands")
    /\ Len(call.queries) >= 1
    /\ call.model = UNSUPPORTED_NAME
    /\ ClaudeArgs(ret[1]).model = UNSUPPORTED_NAME

\* C6: get_docker_env returns exactly the keys ANTHROPIC_BASE_URL and
\* ANTHROPIC_API_KEY, the first with proxy_url unchanged, the second with
\* fake-key, whatever the model argument is.
C6_DockerEnv ==
    Done("get_docker_env") =>
        /\ DOMAIN ret = {"ANTHROPIC_BASE_URL", "ANTHROPIC_API_KEY"}
        /\ ret["ANTHROPIC_BASE_URL"] = call.proxy_url
        /\ ret["ANTHROPIC_API_KEY"] = <<"f","a","k","e","-","k","e","y">>

C6_Witness ==
    /\ Done("get_docker_env")
    /\ call.proxy_url = <<"h", SQ>>
    /\ call.model = UNSUPPORTED_NAME
    /\ ret["ANTHROPIC_BASE_URL"] = <<"h", SQ>>

\* the structure the settings file is to decode to
ExpectedSettings(proxy_url) ==
    JObj(<< <<<<"e","n","v">>,
              JObj(<< <<<<"A","N","T","H","R","O","P","I","C","_","B","A","S","E","_","U","R","L">>,
                        JStr(proxy_url)>> >>)>>,
            <<<<"p","e","r","m","i","s","s","i","o","n","s">>,
              JObj(<< <<<<"a","l","l","o","w">>,
                        JArr([i \in 1..Len(InitialAllowedPermissions) |->
                                 JStr(InitialAllowedPermissions[i])])>> >>)>> >>)

\* C7: for every proxy_url the setup script holds its payload as one
\* well-formed single-quoted string, and what the shell writes to the
\* settings file decodes as JSON to exactly env.ANTHROPIC_BASE_URL = proxy_url
\* and permissions.allow = the eleven permissions in their declared order.
C7_SetupScriptPayload ==
    Done("get_setup_script") =>
        /\ OneSingleQuotedString(ret)
        /\ SetupWrites(ret).ok
        /\ JsonLoads(SetupWrites(ret).payload).ok
        /\ JsonLoads(SetupWrites(ret).payload).val = ExpectedSettings(call.proxy_url)

\* C9: the four successive replacements equal the single-pass per-character
\* map of the raw text, so the result is longer than the text by the number
\* of special characters in it.
C9_EscapeIsPerCharMap ==
    Done("_escape_for_shell") =>
        /\ ret = PerCharEscape(call.text)
        /\ Len(ret) = Len(call.text) + CountSpecial(call.text)

C9_Witness ==
    /\ Done("_escape_for_shell")
    /\ call.text = <<BS, DQ, "a", BS>>
    /\ Len(ret) = 7

\* claude --dangerously-skip-permissions -c -p "<escaped query>"
ContinuationCommand(query) ==
    <<"c","l","a","u","d","e"," ","-","-","d","a","n","g","e","r","o","u","s","l","y","-","s","k","i","p","-","p","e","r","m","i","s","s","i","o","n","s"," ","-","c"," ","-","p"," ","\"">>
    \o PerCharEscape(query) \o <<DQ>>

\* C10: every command after the first is the continuation form for its own
\* query and nothing else (so model, system prompt and the other queries do
\* not show in it); the command at index 0 does not carry -c.
C10_ContinuationForm ==
    Done("build_commands") =>
        /\ \A k \in 2..Len(ret) :
              /\ ret[k] = ContinuationCommand(call.queries[k])
              /\ ClaudeArgs(ret[k]) =
                    [ok |-> TRUE, model |-> None, p |-> call.queries[k],
                     system_prompt |-> None, c |-> TRUE, skip |-> TRUE]
        /\ Len(ret) >= 1 => ClaudeArgs(ret[1]).ok /\ ~ClaudeArgs(ret[1]).c

C10_Witness ==
    /\ Done("build_commands")
    /\ Len(ret) = 2
    /\ call.model = UNSUPPORTED_NAME
    /\ call.system_prompt = <<"a">>
    /\ call.queries = <<<<SP>>, <<DQ>>>>
    /\ ClaudeArgs(ret[2]).c

\* what a call returns when it is the only call ever made
Isolated(inv) ==
    CASE inv.op = "_escape_for_shell" -> _escape_for_shell(inv.text)
      [] inv.op = "get_docker_env" -> get_docker_env(inv.proxy_url, inv.model)
      [] inv.op = "get_setup_script" ->
            get_setup_script(inv.proxy_url, inv.model, InitialAllowedPermissions)
      [] inv.op = "build_commands" ->
            build_commands(inv.queries, inv.system_prompt, inv.model, InitialDefaultModel)

====
